---- MODULE Spec2Model ----
(***************************************************************************)
(* Excel-CPU-Disassembler: the address codec (class Address), the Tracer   *)
(* (preparation) and the code pass of the Emitter (output), as state       *)
(* machines over the cell array built by load_excel.                       *)
(*                                                                         *)
(* The cell array has 0x10000 cells.  The images considered hold nonzero   *)
(* words only in a short prefix and a short suffix of the address space,   *)
(* so only the cells of Tracked can ever be read or written; the model     *)
(* stores the seven Cell fields as functions over Tracked.  Every index    *)
(* the code computes is still compared with the real array length MemSize. *)
(* Characters are code points (chr/ord), strings are sequences of them.    *)
(***************************************************************************)
EXTENDS Integers, Sequences, FiniteSets, TLC

\* len(cells): cells = [Cell() for _ in range(0x10000)] in load_excel
MemSize == 65536

\* ---- bounds of the images -------------------------------------------------
\* words 0 .. LowSize-1 of a control-flow image are drawn from SmallWords
LowSize == 5
\* words 0 .. OpLen-1 of an opcode image are drawn from Words
OpLen == 3
\* the last HighSize words of the address space may be nonzero in a top image
HighSize == 2

Addr == 0 .. (MemSize - 1)

\* zero, small addresses (opcode 0 = JMP), and JEQ with a nonzero low byte
SmallWords == {0, 1, 2, 3, 256}
\* one word per opcode class of the Tracer and the Emitter:
\* 0x0400 LOAD, 0x0500 LOAD immediate, 0x0600 STORE, 0x0D01 INC with unused
\* bits, 0x1900 LOAD reg,reg (opcode 25), 0x1A00 undefined opcode 26
OpWords == {1024, 1280, 1536, 3329, 6400, 6656}
Words == SmallWords \cup OpWords
HighAddrs == (MemSize - HighSize) .. (MemSize - 1)
HighWords == {0, 1, 1792}

\* the cells an image of the families below can cause to be touched: the
\* nonzero prefix, the nonzero suffix and every word value (a target), each
\* with the two cells after it, which a decode there reads or marks
TrackedBase ==
    (0 .. LowSize) \cup Words \cup HighWords \cup HighAddrs \cup {MemSize - HighSize - 1}
Tracked == UNION {{b, b + 1, b + 2} \cap Addr : b \in TrackedBase}

ZeroImage == [a \in Tracked |-> 0]
Overlay(f) == [a \in Tracked |-> IF a \in DOMAIN f THEN f[a] ELSE 0]
FlowImages == {Overlay(f) : f \in [0 .. (LowSize - 1) -> SmallWords]}
OpImages == {Overlay(f) : f \in [0 .. (OpLen - 1) -> Words]}
\* entry vector pointing into the top of memory
TopImages ==
    {[a \in Tracked |-> IF a = 1 THEN e ELSE IF a \in HighAddrs THEN f[a] ELSE 0] :
        e \in HighAddrs \cup {MemSize - HighSize - 1}, f \in [HighAddrs -> HighWords]}
Images == FlowImages \cup OpImages \cup TopImages

Styles == {"deci", "hex", "rowcol", "excel"}

VARIABLES
    data,            \* Cell.data of every tracked cell (the loaded image)
    label,           \* Cell.label: <<>> is None, else <<prefix, address>>
    exec_from_prev,  \* Cell.exec_from_prev: <<>> is None, else <<address>>
    is_2nd_word,     \* Cell.is_2nd_word
    read_from, write_from, jump_from,   \* Cell cross-reference lists
    entry, last, pc, x,                 \* globals and locals of preparation/output
    phase,           \* position in __main__: preparation, then output
    err,             \* "none", or the exception that ended the program
    rerun,           \* TRUE while a second call of preparation is running
    no_warnings,     \* args.no_warnings
    decode_all,      \* args.decode_all
    out,             \* lines written by the code pass of output, as <<kind, pc>>
    ndata,           \* number of var_ lines written by the data section
    sweepStarts,     \* history: addresses the main sweep passed to one_instruction
    preStarts,       \* history: addresses the pre-entry scan passed to one_instruction
    sweepTargets,    \* history: x < entry with jump_from non-empty when the sweep ended
    oob,             \* history: indexes used on cells that lie outside 0 .. MemSize-1
    snap,            \* history: lists and labels when the first preparation returned
    lastStep,        \* history: <<>> or <<pass, pc>> of the decode the last step did
    addr, style, text, decoded          \* the codec round trip

cellvars == <<data, label, exec_from_prev, is_2nd_word, read_from, write_from, jump_from>>
progvars == <<entry, last, pc, x, phase, err, rerun, no_warnings, decode_all, out, ndata>>
histvars == <<sweepStarts, preStarts, sweepTargets, oob, snap, lastStep>>
codecvars == <<addr, style, text, decoded>>
vars == <<cellvars, progvars, histvars, codecvars>>

\* ---- helpers ----------------------------------------------------------------
Max(S) == CHOOSE m \in S : \A n \in S : n <= m
Min(S) == CHOOSE m \in S : \A n \in S : m <= n
\* cells[i].field = v ; reading f[i] first makes an untracked index an error
Put(f, i, v) == IF f[i] = v THEN f ELSE [f EXCEPT ![i] = v]
\* cells[i].field.append(v)
AppendAt(f, i, v) == Put(f, i, Append(f[i], v))

\* opcode = lambda x: x >> 8
opcode(w) == w \div 256
reg1(w) == (w \div 16) % 16
reg2(w) == w % 16

\* ---- one_instruction ----------------------------------------------------------
\* faulty variant: the STORE test written as opcode >= 6
XrefKindStoreFrom6(op) ==
    IF op < 4 THEN "jump"
    ELSE IF op = 4 THEN "read"
    ELSE IF op >= 6 THEN "write"
    ELSE "none"

\* the if/elif chain of one_instruction: which list of the target gets pc_
XrefKind(op) ==
    IF op < 4 THEN "jump"
    ELSE IF op = 4 THEN "read"
    ELSE IF op = 6 THEN "write"
    ELSE "none"

\* pc_ += 2 for opcode < 7, else pc_ += 1
Width(op) == IF op < 7 THEN 2 ELSE 1

\* one_instruction(pc_) on the current cells: the new cell fields, the value
\* returned, and the IndexError raised by cells[pc_+1] or by cells[pc_] (the
\* advanced pc_) when that index is len(cells) or more.  A raise keeps what
\* was written before it.
one_instruction(p) ==
    LET op == opcode(data[p])
        w == Width(op)
        kind == XrefKind(op)
        noOperand == w = 2 /\ p + 1 >= MemSize
        target == data[p + 1]
        jf == IF kind = "jump" THEN AppendAt(jump_from, target, p) ELSE jump_from
        rf == IF kind = "read" THEN AppendAt(read_from, target, p) ELSE read_from
        wf == IF kind = "write" THEN AppendAt(write_from, target, p) ELSE write_from
        i2 == IF w = 2 THEN Put(is_2nd_word, p + 1, TRUE) ELSE is_2nd_word
        nxt == p + w
        noNext == data[p] # 0 /\ nxt >= MemSize
    IN  IF noOperand
        THEN [jump_from |-> jump_from, read_from |-> read_from, write_from |-> write_from,
              is_2nd_word |-> is_2nd_word, exec_from_prev |-> exec_from_prev,
              ret |-> p, err |-> "IndexError", oob |-> {p + 1}]
        ELSE IF noNext
        THEN [jump_from |-> jf, read_from |-> rf, write_from |-> wf,
              is_2nd_word |-> i2, exec_from_prev |-> exec_from_prev,
              ret |-> p, err |-> "IndexError", oob |-> {nxt}]
        ELSE [jump_from |-> jf, read_from |-> rf, write_from |-> wf,
              is_2nd_word |-> i2,
              exec_from_prev |-> IF data[p] # 0 THEN Put(exec_from_prev, nxt, <<p>>)
                                 ELSE exec_from_prev,
              ret |-> nxt, err |-> "none", oob |-> {}]

\* the cell fields after a call of one_instruction, and the program's fate
ApplyInstruction(r) ==
    /\ jump_from' = r.jump_from
    /\ read_from' = r.read_from
    /\ write_from' = r.write_from
    /\ is_2nd_word' = r.is_2nd_word
    /\ exec_from_prev' = r.exec_from_prev
    /\ err' = r.err
    /\ oob' = oob \cup r.oob
    /\ UNCHANGED <<data, label>>

\* ---- preparation ------------------------------------------------------------
\* faulty variant: the entry vector is followed whatever cells[0] holds
EntryAlwaysVector == data[1]

\* entry = cells[1].data if cells[0].data == 0 else 0
EntryOf == IF data[0] = 0 THEN data[1] ELSE 0

\* "get entry point": entry, and for an entry vector the Entrypoint_ label and
\* the synthetic jump origin Address(0) on the entry cell
ResolveEntry ==
    /\ phase = "start"
    /\ entry' = EntryOf
    /\ IF data[0] = 0
       THEN /\ label' = Put(label, data[1], <<"Entrypoint_", data[1]>>)
            /\ jump_from' = AppendAt(jump_from, data[1], 0)
       ELSE UNCHANGED <<label, jump_from>>
    /\ pc' = entry'
    /\ phase' = "findlast"
    /\ lastStep' = <<>>
    /\ UNCHANGED <<data, exec_from_prev, is_2nd_word, read_from, write_from>>
    /\ UNCHANGED <<last, x, err, rerun, no_warnings, decode_all, out, ndata>>
    /\ UNCHANGED <<sweepStarts, preStarts, sweepTargets, oob, snap>>
    /\ UNCHANGED codecvars

NonZero == {a \in Tracked : data[a] # 0}

\* "find last instruction": last = 0xffff; while cells[last].data == 0: last -= 1.
\* On an all-zero image last runs below 0: the indexes -1 .. -MemSize wrap to
\* the end of the list and read zeros again, and cells[-MemSize-1] raises.
FindLast ==
    /\ phase = "findlast"
    /\ IF NonZero # {}
       THEN /\ last' = Max(NonZero)
            /\ phase' = "sweep"
            /\ UNCHANGED <<err, oob>>
       ELSE /\ last' = 0 - MemSize - 1
            /\ phase' = "crash"
            /\ err' = "IndexError"
            /\ oob' = oob \cup {0 - 1, 0 - MemSize - 1}
    /\ lastStep' = <<>>
    /\ UNCHANGED cellvars
    /\ UNCHANGED <<entry, pc, x, rerun, no_warnings, decode_all, out, ndata>>
    /\ UNCHANGED <<sweepStarts, preStarts, sweepTargets, snap>>
    /\ UNCHANGED codecvars

\* "traverse all cells": one iteration of while pc <= last: pc = one_instruction(pc)
SweepStep ==
    /\ phase = "sweep"
    /\ pc <= last
    /\ LET r == one_instruction(pc)
       IN  /\ ApplyInstruction(r)
           /\ pc' = r.ret
           /\ phase' = IF r.err = "none" THEN "sweep" ELSE "crash"
    /\ sweepStarts' = sweepStarts \cup {pc}
    /\ lastStep' = <<"sweep", pc>>
    /\ UNCHANGED <<entry, last, x, rerun, no_warnings, decode_all, out, ndata>>
    /\ UNCHANGED <<preStarts, sweepTargets, snap>>
    /\ UNCHANGED codecvars

\* the main sweep's loop ends; x = 0
SweepEnd ==
    /\ phase = "sweep"
    /\ pc > last
    /\ x' = 0
    /\ phase' = "prescan"
    /\ sweepTargets' = {a \in Tracked : a < entry /\ jump_from[a] # <<>>}
    /\ lastStep' = <<>>
    /\ UNCHANGED cellvars
    /\ UNCHANGED <<entry, last, pc, err, rerun, no_warnings, decode_all, out, ndata>>
    /\ UNCHANGED <<sweepStarts, preStarts, oob, snap>>
    /\ UNCHANGED codecvars

\* faulty variant: the pre-entry scan looks at exec_from_prev only
UnreachedNoJumps(a) == exec_from_prev[a] = <<>>

\* len(cells[x].jump_from) == 0 and cells[x].exec_from_prev is None
Unreached(a) == jump_from[a] = <<>> /\ exec_from_prev[a] = <<>>

\* "cells before entry point": the iterations that only do x += 1, taken
\* together: x moves to the next cell that is reached, or to entry.  Cells
\* outside Tracked are never written, so they are never reached.
PreSkip ==
    /\ phase = "prescan"
    /\ x < entry
    /\ Unreached(x)
    /\ x' = Min({a \in Tracked : a > x /\ a < entry /\ ~Unreached(a)} \cup {entry})
    /\ lastStep' = <<>>
    /\ UNCHANGED cellvars
    /\ UNCHANGED <<entry, last, pc, phase, err, rerun, no_warnings, decode_all, out, ndata>>
    /\ UNCHANGED <<sweepStarts, preStarts, sweepTargets, oob, snap>>
    /\ UNCHANGED codecvars

\* "cells before entry point": x = one_instruction(x) on a reached cell
PreDecode ==
    /\ phase = "prescan"
    /\ x < entry
    /\ ~Unreached(x)
    /\ LET r == one_instruction(x)
       IN  /\ ApplyInstruction(r)
           /\ x' = r.ret
           /\ phase' = IF r.err = "none" THEN "prescan" ELSE "crash"
    /\ preStarts' = preStarts \cup {x}
    /\ lastStep' = <<"prescan", x>>
    /\ UNCHANGED <<entry, last, pc, rerun, no_warnings, decode_all, out, ndata>>
    /\ UNCHANGED <<sweepStarts, sweepTargets, snap>>
    /\ UNCHANGED codecvars

\* faulty variant: "set label" starts one cell after entry
LabelAfterSkippingEntry(a) ==
    IF entry < a /\ a <= last /\ ~is_2nd_word[a] /\ label[a] = <<>> /\ jump_from[a] # <<>>
    THEN <<"loc_", a>>
    ELSE label[a]

\* the label a cell holds after "set label" has passed it
LabelAfter(a) ==
    IF entry <= a /\ a <= last /\ ~is_2nd_word[a] /\ label[a] = <<>> /\ jump_from[a] # <<>>
    THEN <<"loc_", a>>
    ELSE label[a]

\* the pre-entry scan ends and "set label" runs from entry to last; preparation returns
AssignLabels ==
    /\ phase = "prescan"
    /\ x >= entry
    /\ label' = [a \in Tracked |-> LabelAfter(a)]
    /\ pc' = IF entry <= last THEN last + 1 ELSE entry
    /\ phase' = "done"
    /\ lastStep' = <<>>
    /\ UNCHANGED <<data, exec_from_prev, is_2nd_word, read_from, write_from, jump_from>>
    /\ UNCHANGED <<entry, last, x, err, rerun, no_warnings, decode_all, out, ndata>>
    /\ UNCHANGED <<sweepStarts, preStarts, sweepTargets, oob, snap>>
    /\ UNCHANGED codecvars

\* preparation is called a second time on the same cells
Rerun ==
    /\ phase = "done"
    /\ ~rerun
    /\ rerun' = TRUE
    /\ phase' = "start"
    /\ snap' = <<jump_from, read_from, write_from, label>>
    /\ sweepStarts' = {}
    /\ preStarts' = {}
    /\ sweepTargets' = {}
    /\ lastStep' = <<>>
    /\ UNCHANGED cellvars
    /\ UNCHANGED <<entry, last, pc, x, err, no_warnings, decode_all, out, ndata, oob>>
    /\ UNCHANGED codecvars

\* ---- output -------------------------------------------------------------------
\* the unused_bits value the operand branch of output sets for word w
UnusedBits(w) ==
    LET op == opcode(w)
    IN  IF op < 4 THEN (IF reg1(w) # 0 \/ reg2(w) # 0 THEN 2 ELSE 0)
        ELSE IF op \in {4, 5, 6, 13, 14, 18} THEN (IF reg2(w) # 0 THEN 1 ELSE 0)
        ELSE IF op \in 22 .. 24 THEN (IF reg1(w) # 0 \/ reg2(w) # 0 THEN 2 ELSE 0)
        ELSE 0

Line(c, kind, p) == IF c THEN <<(<<kind, p>>)>> ELSE <<>>

\* the lines of one iteration of the code pass up to and including the
\* mnemonic line and the "unknown opcode" comment
LinesBefore(p) ==
    Line(label[p] # <<>>, "label", p)
      \o Line(read_from[p] # <<>> /\ ~no_warnings, "warn_read", p)
      \o Line(write_from[p] # <<>> /\ ~no_warnings, "warn_write", p)
      \o <<(<<"ins", p>>)>>
      \o Line(opcode(data[p]) >= 26, "error_opcode", p)

\* the lines after the operand-warning statement
LinesAfter(p) ==
    Line(UnusedBits(data[p]) # 0 /\ ~no_warnings, "warn_unused", p)
      \o Line(jump_from[p] # <<>>, "xref", p)
      \o Line(jump_from[p] = <<>> /\ exec_from_prev[p] = <<>> /\ ~no_warnings, "warn_noexec", p)
      \o Line(decode_all /\ opcode(data[p]) < 7
                /\ 0 < opcode(data[p + 1]) /\ opcode(data[p + 1]) < 26, "hint", p)

\* "2nd word has jump_from": the condition under which the f-string holding
\* ins_set(opcode_) is evaluated; ins_set is a list, so calling it raises TypeError
OperandWarning(p) ==
    opcode(data[p]) < 7 /\ jump_from[p + 1] # <<>> /\ ~no_warnings

\* output() starts: the options are read, the data section is written
\* (range(2, entry) var_ lines when entry != 0), pc = entry
BeginOutput ==
    /\ phase = "done"
    /\ ~rerun
    /\ no_warnings' \in BOOLEAN
    /\ decode_all' \in BOOLEAN
    /\ ndata' = IF entry > 2 THEN entry - 2 ELSE 0
    /\ out' = <<>>
    /\ pc' = entry
    /\ phase' = "code"
    /\ lastStep' = <<>>
    /\ UNCHANGED cellvars
    /\ UNCHANGED <<entry, last, x, err, rerun>>
    /\ UNCHANGED <<sweepStarts, preStarts, sweepTargets, oob, snap>>
    /\ UNCHANGED codecvars

\* one iteration of while pc <= last in output
EmitInstr ==
    /\ phase = "code"
    /\ pc <= last
    /\ IF pc + 1 >= MemSize
       THEN \* second = cells[pc+1].data
            /\ err' = "IndexError"
            /\ oob' = oob \cup {pc + 1}
            /\ phase' = "emitfail"
            /\ UNCHANGED <<out, pc>>
       ELSE IF OperandWarning(pc)
       THEN /\ err' = "TypeError"
            /\ phase' = "emitfail"
            /\ out' = out \o LinesBefore(pc)
            /\ UNCHANGED <<oob, pc>>
       ELSE /\ out' = out \o LinesBefore(pc) \o LinesAfter(pc)
            /\ pc' = pc + (IF opcode(data[pc]) >= 7 THEN 1 ELSE 2)
            /\ UNCHANGED <<err, oob, phase>>
    /\ lastStep' = <<>>
    /\ UNCHANGED cellvars
    /\ UNCHANGED <<entry, last, x, rerun, no_warnings, decode_all, ndata>>
    /\ UNCHANGED <<sweepStarts, preStarts, sweepTargets, snap>>
    /\ UNCHANGED codecvars

\* the code pass ends: output returns
EmitEnd ==
    /\ phase = "code"
    /\ pc > last
    /\ phase' = "emitted"
    /\ lastStep' = <<>>
    /\ UNCHANGED cellvars
    /\ UNCHANGED <<entry, last, pc, x, err, rerun, no_warnings, decode_all, out, ndata>>
    /\ UNCHANGED <<sweepStarts, preStarts, sweepTargets, oob, snap>>
    /\ UNCHANGED codecvars

\* ---- the program ----------------------------------------------------------------
\* the cells as load_excel leaves them: Cell() defaults and the image's data
FreshCells(image) ==
    /\ data = image
    /\ label = [a \in Tracked |-> <<>>]
    /\ exec_from_prev = [a \in Tracked |-> <<>>]
    /\ is_2nd_word = [a \in Tracked |-> FALSE]
    /\ read_from = [a \in Tracked |-> <<>>]
    /\ write_from = [a \in Tracked |-> <<>>]
    /\ jump_from = [a \in Tracked |-> <<>>]

NoHistory ==
    /\ sweepStarts = {}
    /\ preStarts = {}
    /\ sweepTargets = {}
    /\ oob = {}
    /\ snap = <<>>
    /\ lastStep = <<>>

Init ==
    /\ \E image \in Images : FreshCells(image)
    /\ entry = 0 /\ last = 0 /\ pc = 0 /\ x = 0
    /\ phase = "start"
    /\ err = "none"
    /\ rerun = FALSE
    /\ no_warnings = FALSE
    /\ decode_all = FALSE
    /\ out = <<>>
    /\ ndata = 0
    /\ NoHistory
    /\ addr = 0 /\ style = "hex" /\ text = <<>> /\ decoded = <<>>

Next ==
    \/ ResolveEntry
    \/ FindLast
    \/ SweepStep
    \/ SweepEnd
    \/ PreSkip
    \/ PreDecode
    \/ AssignLabels
    \/ Rerun
    \/ BeginOutput
    \/ EmitInstr
    \/ EmitEnd

Spec == Init /\ [][Next]_vars

\* ---- class Address ----------------------------------------------------------------
RECURSIVE Digits(_, _)
\* the digits of n >= 0 in the base, most significant first, no padding
Digits(n, base) ==
    IF n < base THEN <<n>> ELSE Append(Digits(n \div base, base), n % base)

\* chr of a digit: '0'..'9', then 'A'..'F' (format X)
DigitChar(d) == IF d < 10 THEN 48 + d ELSE 55 + d

Chars(ds) == [i \in 1 .. Len(ds) |-> DigitChar(ds[i])]

RECURSIVE Zeros(_)
Zeros(n) == IF n <= 0 THEN <<>> ELSE <<48>> \o Zeros(n - 1)

\* str(n) for n >= 0
DecStr(n) == Chars(Digits(n, 10))

\* to_hex: f'{address:04X}'
to_hex(a) ==
    LET ds == Chars(Digits(a, 16))
    IN  Zeros(4 - Len(ds)) \o ds

\* to_row_col: (address // 0x100, address % 0x100)
to_row_col(a) == <<a \div 256, a % 256>>

\* faulty variant: the first letter of a double-letter column counted from 'A' = 1
ColumnLettersFromOne(col) ==
    IF col >= 26 THEN <<(col \div 26) + 64, (col % 26) + 65>> ELSE <<col + 65>>

\* the column letters of to_excel: chr(col // 26 + 65), chr(col % 26 + 65)
ColumnLetters(col) ==
    IF col >= 26 THEN <<(col \div 26) + 65, (col % 26) + 65>> ELSE <<col + 65>>

\* to_excel
to_excel(a) ==
    LET rc == to_row_col(a)
    IN  ColumnLetters(rc[2]) \o DecStr(rc[1] + 1)

\* __str__ under args.address_style
AddressStr(a, st) ==
    IF st = "deci" THEN DecStr(a)
    ELSE IF st = "hex" THEN to_hex(a)
    ELSE IF st = "rowcol" THEN DecStr(to_row_col(a)[1]) \o <<95>> \o DecStr(to_row_col(a)[2])
    ELSE to_excel(a)

\* the value of a digit character in int(s, base): -1 when it is no digit
DigitValue(c) ==
    IF c \in 48 .. 57 THEN c - 48
    ELSE IF c \in 65 .. 90 THEN c - 55
    ELSE IF c \in 97 .. 122 THEN c - 87
    ELSE 0 - 1

ValidNumber(s, base) ==
    Len(s) > 0 /\ \A i \in 1 .. Len(s) : DigitValue(s[i]) \in 0 .. (base - 1)

RECURSIVE NumberValue(_, _)
NumberValue(s, base) ==
    IF Len(s) = 0 THEN 0
    ELSE NumberValue(SubSeq(s, 1, Len(s) - 1), base) * base + DigitValue(s[Len(s)])

\* int(s, base) on a string of digits: <<value>>, or <<>> for ValueError
ParseInt(s, base) == IF ValidNumber(s, base) THEN <<NumberValue(s, base)>> ELSE <<>>

\* from_hex: cls(int(hex_str, 16))
from_hex(s) == ParseInt(s, 16)

\* from_row_col: cls(row * 0x100 + col)
from_row_col(row, col) == row * 256 + col

\* str.isalpha and str.upper on one ASCII character
IsAlpha(c) == c \in 65 .. 90 \/ c \in 97 .. 122
Upper(c) == IF c \in 97 .. 122 THEN c - 32 ELSE c

Tail2(s) == SubSeq(s, 2, Len(s))
Tail3(s) == SubSeq(s, 3, Len(s))

\* from_excel: <<address>>, or <<>> when indexing or int() raises
from_excel(s) ==
    IF Len(s) < 2 THEN <<>>
    ELSE IF IsAlpha(s[2])
    THEN LET col_h == Upper(s[1]) - 65
             col_l == Upper(s[2]) - 65
             col == col_h * 26 + col_l
             row == ParseInt(Tail3(s), 10)
         IN  IF row = <<>> THEN <<>> ELSE <<from_row_col(row[1] - 1, col)>>
    ELSE LET col == Upper(s[1]) - 65
             row == ParseInt(Tail2(s), 10)
         IN  IF row = <<>> THEN <<>> ELSE <<from_row_col(row[1] - 1, col)>>

\* the two numbers of a row_col rendering, read back with int()
RowColOf(s) ==
    LET cut == CHOOSE i \in 1 .. Len(s) : s[i] = 95
        row == ParseInt(SubSeq(s, 1, cut - 1), 10)
        col == ParseInt(SubSeq(s, cut + 1, Len(s)), 10)
    IN  IF row = <<>> \/ col = <<>> THEN <<>> ELSE <<from_row_col(row[1], col[1])>>

\* the decoder of each rendering
AddressOf(s, st) ==
    IF st = "deci" THEN ParseInt(s, 10)
    ELSE IF st = "hex" THEN from_hex(s)
    ELSE IF st = "rowcol" THEN RowColOf(s)
    ELSE from_excel(s)

\* an Address is rendered in some style
Encode ==
    /\ phase = "codec"
    /\ text = <<>>
    /\ \E st \in Styles :
        /\ style' = st
        /\ text' = AddressStr(addr, st)
    /\ UNCHANGED <<addr, decoded>>
    /\ UNCHANGED <<cellvars, progvars, histvars>>

\* the rendering is decoded
Decode ==
    /\ phase = "codec"
    /\ text # <<>>
    /\ decoded = <<>>
    /\ decoded' = <<AddressOf(text, style)>>
    /\ UNCHANGED <<addr, style, text>>
    /\ UNCHANGED <<cellvars, progvars, histvars>>

InitCodec ==
    /\ FreshCells(ZeroImage)
    /\ entry = 0 /\ last = 0 /\ pc = 0 /\ x = 0
    /\ phase = "codec"
    /\ err = "none"
    /\ rerun = FALSE
    /\ no_warnings = FALSE
    /\ decode_all = FALSE
    /\ out = <<>>
    /\ ndata = 0
    /\ NoHistory
    /\ addr \in Addr
    /\ style = "hex" /\ text = <<>> /\ decoded = <<>>

NextCodec ==
    \/ Encode
    \/ Decode

SpecCodec == InitCodec /\ [][NextCodec]_vars

\* C7: decoding the rendering of an address gives the address back, in every
\* display style (so no two addresses share a rendering in a style).
AddressRoundTrip ==
    decoded # <<>> => decoded = <<(<<addr>>)>>

\* C7 witness: a double-letter spreadsheet rendering was decoded
AddressRoundTripWitness ==
    /\ style = "excel"
    /\ addr % 256 >= 26
    /\ Len(text) >= 3
    /\ decoded = <<(<<addr>>)>>

\* ---- claims about preparation and output -------------------------------------------
Elems(s) == {s[i] : i \in 1 .. Len(s)}
NoDuplicates(s) == \A i, j \in 1 .. Len(s) : s[i] = s[j] => i = j
Resolved == phase # "start" \/ rerun

\* C1: with cells[0].data == 0 and cells[1].data == X, entry is X, cell X is
\* labelled Entrypoint_X and its jump_from holds address 0; with
\* cells[0].data != 0, entry is 0, no cell ever holds an Entrypoint_ label and
\* resolving the entry adds no jump origin (all lists are still empty after it).
EntryResolution ==
    Resolved =>
        IF data[0] = 0
        THEN /\ entry = data[1]
             /\ label[data[1]] = <<"Entrypoint_", data[1]>>
             /\ 0 \in Elems(jump_from[data[1]])
        ELSE /\ entry = 0
             /\ \A a \in Tracked : label[a] = <<>> \/ label[a][1] # "Entrypoint_"
             /\ (phase = "findlast" /\ ~rerun) =>
                    \A a \in Tracked : jump_from[a] = <<>> /\ label[a] = <<>>

\* C1 witness: an entry vector to address 2 was resolved and traced
EntryResolutionWitness ==
    /\ phase = "done"
    /\ data[0] = 0 /\ data[1] = 2
    /\ entry = 2
    /\ label[2] = <<"Entrypoint_", 2>>
    /\ jump_from[2][1] = 0

\* C2 as stated: after preparation every address with a non-empty jump_from
\* that is not a second word carries the label loc_<address>.
EveryTargetLabelled ==
    phase = "done" =>
        \A a \in Tracked :
            (jump_from[a] # <<>> /\ ~is_2nd_word[a]) => label[a] = <<"loc_", a>>

\* C2 amended: after preparation every address from entry to last with a
\* non-empty jump_from that is not a second word carries loc_<address>, except
\* the entry cell of an entry vector, which keeps Entrypoint_<address>; no
\* address outside entry .. last carries a loc_ label.
TargetsInRangeLabelled ==
    phase = "done" =>
        \A a \in Tracked :
            /\ (/\ entry <= a /\ a <= last
                /\ jump_from[a] # <<>> /\ ~is_2nd_word[a]
                /\ ~(data[0] = 0 /\ a = entry)) => label[a] = <<"loc_", a>>
            /\ (data[0] = 0 /\ a = entry) => label[a] = <<"Entrypoint_", a>>
            /\ (a < entry \/ a > last) => (label[a] = <<>> \/ label[a][1] # "loc_")

\* C2 witness: one jump target got its loc_ label and another jump target,
\* beyond last, got none
TargetsInRangeLabelledWitness ==
    /\ phase = "done"
    /\ \E a \in Tracked : label[a] = <<"loc_", a>>
    /\ \E b \in Tracked : b > last /\ jump_from[b] # <<>> /\ ~is_2nd_word[b] /\ label[b] = <<>>

\* C3: after the main sweep and the pre-entry scan no address decoded as the
\* first word of an instruction is marked is_2nd_word.
NoStartIsSecondWord ==
    (phase = "done" /\ ~rerun) =>
        \A a \in sweepStarts \cup preStarts : ~is_2nd_word[a]

\* C4: every index preparation and output use on the cell array lies in
\* 0 .. 65535 (no index below 0 or from len(cells) on is ever used).
IndexesInRange == oob = {}

\* C5: the code pass of the Emitter never ends in a failure, whatever the
\* traced image and the options are.
EmitterNeverFails == phase # "emitfail"

\* C6: a second call of preparation leaves the cross-reference lists and the
\* labels as the first call left them.
TracerIdempotent ==
    (phase = "done" /\ rerun) => <<jump_from, read_from, write_from, label>> = snap

\* C8: during one trace every jump_from, read_from and write_from is an
\* ordered set: no list holds an origin address twice.
ListsAreSets ==
    ~rerun =>
        \A a \in Tracked :
            /\ NoDuplicates(jump_from[a])
            /\ NoDuplicates(read_from[a])
            /\ NoDuplicates(write_from[a])

\* the three lists after pc_ was appended to one of them at cell t
ListsWith(kind, t, p) ==
    <<IF kind = "jump" THEN [jump_from EXCEPT ![t] = Append(@, p)] ELSE jump_from,
      IF kind = "read" THEN [read_from EXCEPT ![t] = Append(@, p)] ELSE read_from,
      IF kind = "write" THEN [write_from EXCEPT ![t] = Append(@, p)] ELSE write_from>>

\* the effect of the decode step at p on the three lists when the opcodes
\* that read are readOps; a two-word opcode in the last cell has no operand
\* word and records nothing
DecodeEffect(p, readOps) ==
    LET op == opcode(data[p])
        kind == IF op \in 0 .. 3 THEN "jump"
                ELSE IF op \in readOps THEN "read"
                ELSE IF op = 6 THEN "write"
                ELSE "none"
    IN  IF kind = "none" \/ p + 1 >= MemSize
        THEN <<jump_from', read_from', write_from'>> = <<jump_from, read_from, write_from>>
        ELSE <<jump_from', read_from', write_from'>> = ListsWith(kind, data[p + 1], p)

\* C9 as stated: a decode step at pc appends pc to the target's jump_from for
\* opcode 0-3, to its read_from for opcode 4 or 25, to its write_from for
\* opcode 6, and changes no list otherwise.
XrefEffectWith25 ==
    [][lastStep' # <<>> => DecodeEffect(lastStep'[2], {4, 25})]_vars

\* C9 amended: as stated, except that only opcode 4 appends to read_from:
\* opcode 25 is a one-word instruction and, like opcode 5 and every opcode
\* from 7 on, changes no list (the target is the word at pc+1, pc < 65535).
XrefEffect ==
    [][lastStep' # <<>> => DecodeEffect(lastStep'[2], {4})]_vars

\* C9 witness: opcode 25 was decoded after a LOAD had been recorded, and no
\* list holds its address
XrefEffectWitness ==
    /\ lastStep # <<>>
    /\ opcode(data[lastStep[2]]) = 25
    /\ \E a \in Tracked : read_from[a] # <<>>
    /\ \A a \in Tracked :
        lastStep[2] \notin Elems(jump_from[a]) \cup Elems(read_from[a]) \cup Elems(write_from[a])

\* C10 as stated: every x < entry that is a jump target when the main sweep
\* ends has been decoded by the pre-entry scan when preparation returns.
EveryPreEntryTargetDecoded ==
    (phase = "done" /\ entry > 0) => sweepTargets \subseteq preStarts

\* what one_instruction leaves behind for a decoded x
DecodedLikeSweep(t) ==
    LET op == opcode(data[t])
        kind == XrefKind(op)
    IN  /\ kind = "jump" => t \in Elems(jump_from[data[t + 1]])
        /\ kind = "read" => t \in Elems(read_from[data[t + 1]])
        /\ kind = "write" => t \in Elems(write_from[data[t + 1]])
        /\ Width(op) = 2 => is_2nd_word[t + 1]
        /\ data[t] # 0 => exec_from_prev[t + Width(op)] = <<t>>

\* C10 amended: when preparation returns, every x < entry that was a jump
\* target when the main sweep ended has been decoded by the pre-entry scan
\* with the side effects of a main-sweep step, unless the scan consumed x as
\* the operand word of the two-word instruction it decoded at x-1.
PreEntryTargetDecodedOrOperand ==
    (phase = "done" /\ entry > 0) =>
        /\ \A t \in sweepTargets :
            \/ t \in preStarts
            \/ /\ t - 1 \in preStarts
               /\ Width(opcode(data[t - 1])) = 2
               /\ is_2nd_word[t]
        /\ \A t \in preStarts : t < entry /\ DecodedLikeSweep(t)

\* C10 witness: the scan decoded one jump target before entry and skipped
\* another as an operand word
PreEntryTargetDecodedOrOperandWitness ==
    /\ phase = "done"
    /\ entry > 0
    /\ \E t \in sweepTargets : t \in preStarts
    /\ \E t \in sweepTargets : t \notin preStarts

====
